---- MODULE Spec2Model ----
(***************************************************************************)
(* A model of the react-native-png document (RnPng), its pixel-data chunk  *)
(* (IDAT) and its background chunk (bKGD).  Buffers are sequences of       *)
(* bytes; the document is the set of WeakMap slots of rn-png.js.           *)
(***************************************************************************)
EXTENDS Integers, Sequences, FiniteSets, TLC

(***************************************************************************)
(* Bounds of the model.                                                    *)
(***************************************************************************)
MaxWidth == 2
MaxHeight == 2
MaxEdits == 2
MaxLoads == 1

(***************************************************************************)
(* util/constants                                                          *)
(***************************************************************************)
GRAYSCALE == 0
TRUECOLOR == 2
INDEXED == 3
GRAYSCALE_AND_ALPHA == 4
TRUECOLOR_AND_ALPHA == 6
ColorTypes == {GRAYSCALE, TRUECOLOR, INDEXED, GRAYSCALE_AND_ALPHA, TRUECOLOR_AND_ALPHA}

EIGHT == 8
BitDepths == {1, 2, 4, 8, 16}

DEFAULT_COMPRESSION == 0
DEFAULT_FILTER == 0
DEFAULT_INTERLACE == 0

SupportedChunks == <<"IHDR", "PLTE", "tRNS", "bKGD", "IDAT", "IEND">>

PngSignature == <<137, 80, 78, 71, 13, 10, 26, 10>>

ChunkHeaderSequences ==
  [IHDR |-> <<73, 72, 68, 82>>,
   PLTE |-> <<80, 76, 84, 69>>,
   tRNS |-> <<116, 82, 78, 83>>,
   bKGD |-> <<98, 75, 71, 68>>,
   IDAT |-> <<73, 68, 65, 84>>,
   IEND |-> <<73, 69, 78, 68>>]

(***************************************************************************)
(* chunks/chunk: framing sizes                                             *)
(***************************************************************************)
CHUNK_LENGTH_SIZE == 4
CHUNK_TYPE_SIZE == 4
CHUNK_CRC32_SIZE == 4

(***************************************************************************)
(* chunks/idat: size constants                                             *)
(***************************************************************************)
DEFLATE_BLOCKS_SIZE == 2
ZLIB_HEADER_SIZE == 5
ADLER_BASE == 65521
ADLER_CHECKSUM_SIZE == 4
DEFLATE_BLOCK_MAX == 65535

(***************************************************************************)
(* JavaScript's undefined, as a sample value.                              *)
(***************************************************************************)
Undefined == -1

(***************************************************************************)
(* Sequence and byte helpers                                               *)
(***************************************************************************)
RECURSIVE Pow2(_)
Pow2(n) == IF n = 0 THEN 1 ELSE 2 * Pow2(n - 1)

CeilDiv(a, b) == (a + b - 1) \div b

Min(a, b) == IF a < b THEN a ELSE b

Zeros(n) == [i \in 1..n |-> 0]

\* JS subarray(begin, end): clamped to the view, zero-based, end exclusive.
Subarray(s, from, to) ==
  LET b == Min(from, Len(s))
      e == Min(to, Len(s))
  IN  IF e <= b THEN <<>> ELSE [i \in 1..(e - b) |-> s[b + i]]

\* A zero-based typed-array read; out of range reads give undefined.
At(s, i) == IF i >= 0 /\ i < Len(s) THEN s[i + 1] ELSE Undefined

\* A zero-based typed-array write; out of range writes are ignored and
\* undefined is stored as 0.
SetAt(s, i, v) ==
  IF i >= 0 /\ i < Len(s)
  THEN [s EXCEPT ![i + 1] = IF v = Undefined THEN 0 ELSE v]
  ELSE s

RECURSIVE SeqSum(_)
SeqSum(s) == IF s = <<>> THEN 0 ELSE Head(s) + SeqSum(Tail(s))

RECURSIVE Flatten(_)
Flatten(ss) == IF ss = <<>> THEN <<>> ELSE Head(ss) \o Flatten(Tail(ss))

writeUint32(n) ==
  <<(n \div 16777216) % 256, (n \div 65536) % 256, (n \div 256) % 256, n % 256>>

writeUint16(n, littleEndian) ==
  IF littleEndian THEN <<n % 256, (n \div 256) % 256>>
  ELSE <<(n \div 256) % 256, n % 256>>

\* Values of 2^31 and more are read as 2^31 - 1 (they only occur as lengths
\* that exceed every buffer).
readUint32At(s, off) ==
  IF At(s, off) >= 128 THEN 2147483647
  ELSE At(s, off) * 16777216 + At(s, off + 1) * 65536 + At(s, off + 2) * 256 + At(s, off + 3)

readUint16(s, off) == At(s, off) * 256 + At(s, off + 1)

\* First zero-based index >= from at which seq occurs in buf, or -1.
RECURSIVE indexOfSequence(_, _, _)
indexOfSequence(buf, seq, from) ==
  IF from + Len(seq) > Len(buf) THEN -1
  ELSE IF \A k \in 1..Len(seq) : buf[from + k] = seq[k] THEN from
  ELSE indexOfSequence(buf, seq, from + 1)

(***************************************************************************)
(* util/png-pixels                                                         *)
(***************************************************************************)
isIndexed(colorType) == colorType = INDEXED
isGrayscale(colorType) == colorType = GRAYSCALE
isTruecolor(colorType) == colorType = TRUECOLOR
isGrayscaleWithAlpha(colorType) == colorType = GRAYSCALE_AND_ALPHA
isTruecolorWithAlpha(colorType) == colorType = TRUECOLOR_AND_ALPHA
hasAlphaSample(colorType) ==
  colorType = GRAYSCALE_AND_ALPHA \/ colorType = TRUECOLOR_AND_ALPHA

determinePixelColorSize(colorType) ==
  IF colorType = TRUECOLOR \/ colorType = TRUECOLOR_AND_ALPHA THEN 3 ELSE 1

determineFullPixelSize(colorType) ==
  determinePixelColorSize(colorType) + (IF hasAlphaSample(colorType) THEN 1 ELSE 0)

computeNumberOfPixels(width, height) == width * height

computeMaxNumberOfColors(depth) == Pow2(depth)

determineDataRowLength(depth, colorType, width) ==
  CeilDiv(width * determineFullPixelSize(colorType) * depth, 8)

determineBackgroundSamplesPerEntry(colorType) ==
  IF colorType = TRUECOLOR \/ colorType = TRUECOLOR_AND_ALPHA THEN 3 ELSE 1

(***************************************************************************)
(* util/typed-array: bit packing of a flat sample sequence                 *)
(***************************************************************************)
\* One output byte from up to 8/depth samples, first sample in the high bits.
RECURSIVE PackGroup(_, _, _)
PackGroup(samples, depth, slots) ==
  IF slots = 0 THEN 0
  ELSE LET v == IF samples = <<>> THEN 0 ELSE Head(samples) % Pow2(depth)
           rest == IF samples = <<>> THEN <<>> ELSE Tail(samples)
       IN  v * Pow2(depth * (slots - 1)) + PackGroup(rest, depth, slots - 1)

packByteData(data, depth) ==
  IF depth >= EIGHT THEN data
  ELSE LET per == 8 \div depth
       IN  [i \in 1..CeilDiv(Len(data), per) |->
              PackGroup(Subarray(data, (i - 1) * per, i * per), depth, per)]

unpackByteData(data, depth) ==
  IF depth >= EIGHT THEN data
  ELSE LET per == 8 \div depth
       IN  [i \in 1..(Len(data) * per) |->
              (data[((i - 1) \div per) + 1] \div Pow2(depth * (per - 1 - ((i - 1) % per))))
                % Pow2(depth)]

(***************************************************************************)
(* util/compress-decompress: scanline filter bytes                         *)
(***************************************************************************)
\* Prefix every scanline of rowLength bytes with the filter type None (0);
\* bytes missing from the input are written as 0.
addFilterFields(data, rowLength, height) ==
  [i \in 1..((rowLength + 1) * height) |->
     LET row == (i - 1) \div (rowLength + 1)
         col == (i - 1) % (rowLength + 1)
         v == At(data, row * rowLength + col - 1)
     IN  IF col = 0 THEN 0 ELSE IF v = Undefined THEN 0 ELSE v]

removeFilterFields(data, rowLength, height) ==
  [i \in 1..(rowLength * height) |->
     LET row == (i - 1) \div rowLength
         col == (i - 1) % rowLength
         v == At(data, row * (rowLength + 1) + col + 1)
     IN  IF v = Undefined THEN 0 ELSE v]

\* Inverse of the PNG scanline filters, selected per scanline by its filter
\* byte: 0 None, 1 Sub, 2 Up, 3 Average, 4 Paeth.  The filter bytes stay.
PaethPredictor(a, b, c) ==
  LET p == a + b - c
      pa == IF p >= a THEN p - a ELSE a - p
      pb == IF p >= b THEN p - b ELSE b - p
      pc == IF p >= c THEN p - c ELSE c - p
  IN  IF pa <= pb /\ pa <= pc THEN a ELSE IF pb <= pc THEN b ELSE c

\* done: the reconstructed bytes before the zero-based position i.
RECURSIVE Reconstruct(_, _, _, _, _)
Reconstruct(data, stride, fullPixelSize, i, done) ==
  IF i >= Len(data) THEN done
  ELSE LET col == i % stride
           ftype == IF col = 0 THEN 0 ELSE done[i - col + 1]
           raw == data[i + 1]
           a == IF col > fullPixelSize THEN done[i - fullPixelSize + 1] ELSE 0
           b == IF i >= stride THEN done[i - stride + 1] ELSE 0
           c == IF col > fullPixelSize /\ i >= stride
                THEN done[i - stride - fullPixelSize + 1] ELSE 0
           v == IF col = 0 THEN raw
                ELSE IF ftype = 1 THEN (raw + a) % 256
                ELSE IF ftype = 2 THEN (raw + b) % 256
                ELSE IF ftype = 3 THEN (raw + ((a + b) \div 2)) % 256
                ELSE IF ftype = 4 THEN (raw + PaethPredictor(a, b, c)) % 256
                ELSE raw
       IN  Reconstruct(data, stride, fullPixelSize, i + 1, Append(done, v))

defilter(data, width, fullPixelSize) ==
  IF \A i \in 1..Len(data) : (i - 1) % (width * fullPixelSize + 1) # 0 \/ data[i] = 0
  THEN data
  ELSE Reconstruct(data, width * fullPixelSize + 1, fullPixelSize, 0, <<>>)

(***************************************************************************)
(* The injected codec: a lossless zlib container of stored deflate blocks  *)
(***************************************************************************)
\* s1 = 1 + sum of the bytes, s2 = sum of the running values of s1.
RECURSIVE WeightedSum(_, _)
WeightedSum(data, n) ==
  IF data = <<>> THEN 0 ELSE (n * Head(data) + WeightedSum(Tail(data), n - 1)) % ADLER_BASE

Adler32(data) ==
  LET s1 == (1 + SeqSum(data)) % ADLER_BASE
      s2 == (Len(data) + WeightedSum(data, Len(data))) % ADLER_BASE
  IN  writeUint16(s2, FALSE) \o writeUint16(s1, FALSE)

RECURSIVE StoredBlocks(_)
StoredBlocks(data) ==
  IF data = <<>> THEN <<>>
  ELSE LET n == Min(Len(data), DEFLATE_BLOCK_MAX)
           final == IF Len(data) <= DEFLATE_BLOCK_MAX THEN 1 ELSE 0
       IN  <<final>> \o writeUint16(n, TRUE) \o writeUint16(DEFLATE_BLOCK_MAX - n, TRUE)
             \o Subarray(data, 0, n) \o StoredBlocks(Subarray(data, n, Len(data)))

deflate(data) == <<120, 1>> \o StoredBlocks(data) \o Adler32(data)

\* The inverse of deflate on the leading zlib stream of bytes; bytes after the
\* stream are ignored.  ok is FALSE where the codec would throw.
RECURSIVE InflateBlocks(_, _)
InflateBlocks(bytes, off) ==
  LET n == At(bytes, off + 1) + 256 * At(bytes, off + 2)
      nn == At(bytes, off + 3) + 256 * At(bytes, off + 4)
  IN  IF off + ZLIB_HEADER_SIZE > Len(bytes) \/ At(bytes, off) \notin {0, 1}
         \/ n + nn # DEFLATE_BLOCK_MAX \/ off + ZLIB_HEADER_SIZE + n > Len(bytes)
      THEN [ok |-> FALSE, data |-> <<>>, end |-> off]
      ELSE LET here == Subarray(bytes, off + ZLIB_HEADER_SIZE, off + ZLIB_HEADER_SIZE + n)
           IN  IF At(bytes, off) = 1
               THEN [ok |-> TRUE, data |-> here, end |-> off + ZLIB_HEADER_SIZE + n]
               ELSE LET r == InflateBlocks(bytes, off + ZLIB_HEADER_SIZE + n)
                    IN  [ok |-> r.ok, data |-> here \o r.data, end |-> r.end]

inflate(bytes) ==
  IF Len(bytes) < DEFLATE_BLOCKS_SIZE + ADLER_CHECKSUM_SIZE
     \/ At(bytes, 0) # 120 \/ At(bytes, 1) # 1
  THEN [ok |-> FALSE, data |-> <<>>]
  ELSE IF Subarray(bytes, 2, 6) = Adler32(<<>>)
  THEN [ok |-> TRUE, data |-> <<>>]
  ELSE LET r == InflateBlocks(bytes, DEFLATE_BLOCKS_SIZE)
       IN  [ok |-> r.ok /\ Subarray(bytes, r.end, r.end + 4) = Adler32(r.data),
            data |-> r.data]

(***************************************************************************)
(* chunks/chunk: the framing shared by every chunk                         *)
(***************************************************************************)
Chunk_calculateChunkLength == CHUNK_LENGTH_SIZE + CHUNK_TYPE_SIZE + CHUNK_CRC32_SIZE

Chunk_calculateDataOffset == CHUNK_LENGTH_SIZE + CHUNK_TYPE_SIZE

\* The checksum of the type and payload bytes of a chunk buffer, as 4 bytes.
calculateCrc32(typeAndPayload) ==
  writeUint16(SeqSum(typeAndPayload) % 65536, FALSE)
    \o writeUint16(Len(typeAndPayload) % 65536, FALSE)

\* buffer.copyFrom / writeXAt: bytes written at a zero-based offset; bytes
\* that fall outside the buffer are dropped.
WriteAt(buffer, off, bytes) ==
  [i \in 1..Len(buffer) |->
     IF i - 1 >= off /\ i - 1 < off + Len(bytes) THEN bytes[i - off] ELSE buffer[i]]

\* A chunk whose buffer is written front to back: length, type, payload, CRC.
FramedChunk(header, payload) ==
  writeUint32(Len(payload)) \o ChunkHeaderSequences[header] \o payload
    \o calculateCrc32(ChunkHeaderSequences[header] \o payload)

\* The payload a chunk's load() sees in a view that begins at its length field.
LoadedPayload(abuf) ==
  Subarray(abuf, Chunk_calculateDataOffset,
           Chunk_calculateDataOffset + Min(readUint32At(abuf, 0), Len(abuf)))

(***************************************************************************)
(* chunks/ihdr                                                             *)
(***************************************************************************)
NewIHDR(width, height, depth, colorType) ==
  [width |-> width, height |-> height, depth |-> depth, colorType |-> colorType]

IHDR_update(c) ==
  FramedChunk("IHDR",
    writeUint32(c.width) \o writeUint32(c.height)
      \o <<c.depth, c.colorType, DEFAULT_COMPRESSION, DEFAULT_FILTER, DEFAULT_INTERLACE>>)

IHDR_load(abuf) ==
  LET off == Chunk_calculateDataOffset
  IN  NewIHDR(readUint32At(abuf, off), readUint32At(abuf, off + 4),
              At(abuf, off + 8), At(abuf, off + 9))

(***************************************************************************)
(* chunks/plte                                                             *)
(***************************************************************************)
NoPLTE == [present |-> FALSE, maxNumberOfColors |-> 0, palette |-> <<>>]

NewPLTE(maxNumberOfColors) ==
  [present |-> TRUE, maxNumberOfColors |-> maxNumberOfColors, palette |-> <<>>]

PLTE_update(c) == FramedChunk("PLTE", Flatten(c.palette))

PLTE_load(c, abuf) ==
  LET payload == LoadedPayload(abuf)
  IN  [c EXCEPT !.palette =
         [i \in 1..(Len(payload) \div 3) |-> Subarray(payload, 3 * (i - 1), 3 * i)]]

PLTE_isColorInPalette(c, colorData) ==
  \E i \in 1..Len(c.palette) : c.palette[i] = colorData

\* Zero-based index of the first equal entry.
PLTE_getPaletteIndex(c, colorData) ==
  (CHOOSE i \in 1..Len(c.palette) :
     /\ c.palette[i] = colorData
     /\ \A j \in 1..(i - 1) : c.palette[j] # colorData) - 1

PLTE_isFull(c) == Len(c.palette) >= c.maxNumberOfColors

PLTE_addColor(c, colorData) == [c EXCEPT !.palette = Append(c.palette, colorData)]

\* Overwrites entry index; an entry just past the end is appended.
PLTE_setColorOf(c, index, colorData) ==
  IF index < Len(c.palette) THEN [c EXCEPT !.palette[index + 1] = colorData]
  ELSE IF index = Len(c.palette) THEN PLTE_addColor(c, colorData)
  ELSE c

(***************************************************************************)
(* chunks/trns                                                             *)
(***************************************************************************)
OPAQUE == 255

NoTRNS ==
  [present |-> FALSE, colorType |-> 0, maxNumberOfColors |-> 0, transparencies |-> <<>>]

\* transparencies: for an indexed image the alpha of palette entry i, as a
\* one-sample tuple, at position i+1; otherwise the list of color-keys.
NewTRNS(colorType, maxNumberOfColors) ==
  [present |-> TRUE, colorType |-> colorType, maxNumberOfColors |-> maxNumberOfColors,
   transparencies |-> <<>>]

TRNS_getValueOf(c, index) ==
  IF index >= 0 /\ index < Len(c.transparencies)
  THEN c.transparencies[index + 1][1] ELSE Undefined

TRNS_isTransparencySet(c, colorData) ==
  \E i \in 1..Len(c.transparencies) : c.transparencies[i] = colorData

\* index = -1: value is a color-key; otherwise value is the alpha of entry
\* index, and entries skipped while growing are opaque.
TRNS_setTransparency(c, value, index) ==
  IF index = -1
  THEN IF TRNS_isTransparencySet(c, value) THEN c
       ELSE [c EXCEPT !.transparencies = Append(c.transparencies, value)]
  ELSE [c EXCEPT !.transparencies =
          [i \in 1..(IF index + 1 > Len(c.transparencies)
                     THEN index + 1 ELSE Len(c.transparencies)) |->
             IF i = index + 1 THEN <<value>>
             ELSE IF i <= Len(c.transparencies) THEN c.transparencies[i]
             ELSE <<OPAQUE>>]]

RECURSIVE SeqWithout(_, _)
SeqWithout(s, x) ==
  IF s = <<>> THEN <<>>
  ELSE IF Head(s) = x THEN SeqWithout(Tail(s), x)
  ELSE <<Head(s)>> \o SeqWithout(Tail(s), x)

TRNS_removeTransparency(c, colorData) ==
  [c EXCEPT !.transparencies = SeqWithout(c.transparencies, colorData)]

TRNS_removeTransparencyOf(c, index) ==
  IF index >= 0 /\ index < Len(c.transparencies)
  THEN [c EXCEPT !.transparencies[index + 1] = <<OPAQUE>>] ELSE c

RECURSIVE SamplesAsUint16(_)
SamplesAsUint16(samples) ==
  IF samples = <<>> THEN <<>>
  ELSE writeUint16(Head(samples), FALSE) \o SamplesAsUint16(Tail(samples))

TRNS_update(c) ==
  FramedChunk("tRNS",
    IF isIndexed(c.colorType) THEN Flatten(c.transparencies)
    ELSE Flatten([i \in 1..Len(c.transparencies) |-> SamplesAsUint16(c.transparencies[i])]))

TRNS_load(c, abuf) ==
  LET payload == LoadedPayload(abuf)
      n == determinePixelColorSize(c.colorType)
  IN  IF isIndexed(c.colorType)
      THEN [c EXCEPT !.transparencies =
              [i \in 1..Min(Len(payload), c.maxNumberOfColors) |-> <<payload[i]>>]]
      ELSE [c EXCEPT !.transparencies =
              [i \in 1..(Len(payload) \div (2 * n)) |->
                 [k \in 1..n |-> readUint16(payload, 2 * n * (i - 1) + 2 * (k - 1)) % 256]]]

(***************************************************************************)
(* chunks/bkgd                                                             *)
(***************************************************************************)
NoBKGD == [present |-> FALSE, colorType |-> 0, backgroundColor |-> <<>>]

NewBKGD(colorType) ==
  [present |-> TRUE, colorType |-> colorType,
   backgroundColor |-> Zeros(determineBackgroundSamplesPerEntry(colorType))]

BKGD_calculatePayloadSize(c) ==
  IF isIndexed(c.colorType) THEN 1
  ELSE determineBackgroundSamplesPerEntry(c.colorType) * 2

BKGD_calculateChunkLength(c) == Chunk_calculateChunkLength + BKGD_calculatePayloadSize(c)

RECURSIVE BKGD_samples(_)
BKGD_samples(color) ==
  IF color = <<>> THEN <<>>
  ELSE writeUint16(Head(color), TRUE) \o BKGD_samples(Tail(color))

\* The chunk buffer after update(): length, type, payload and CRC written in
\* sequence into a buffer of calculateChunkLength() bytes.
BKGD_update(c) ==
  LET payload == IF isIndexed(c.colorType) THEN <<c.backgroundColor[1]>>
                 ELSE BKGD_samples(c.backgroundColor)
  IN  WriteAt(Zeros(BKGD_calculateChunkLength(c)), 0,
        writeUint32(BKGD_calculatePayloadSize(c)) \o ChunkHeaderSequences["bKGD"]
          \o payload \o calculateCrc32(ChunkHeaderSequences["bKGD"] \o payload))

\* ok is FALSE where setBackgroundColor throws.
BKGD_setBackgroundColor(c, color) ==
  IF Len(color) # determineBackgroundSamplesPerEntry(c.colorType)
  THEN [ok |-> FALSE, chunk |-> c]
  ELSE [ok |-> TRUE,
        chunk |-> [c EXCEPT !.backgroundColor =
                     [i \in 1..Len(color) |-> IF color[i] = Undefined THEN 0 ELSE color[i]]]]

\* load() reads every sample at dataOffset of backgroundInfo, a view that
\* already starts at dataOffset and is payloadSize bytes long.
BKGD_load(c, abuf) ==
  LET dataOffset == Chunk_calculateDataOffset
      backgroundInfo == Subarray(abuf, dataOffset, dataOffset + BKGD_calculatePayloadSize(c))
      color == IF isIndexed(c.colorType) THEN <<At(backgroundInfo, dataOffset)>>
               ELSE [i \in 1..determineBackgroundSamplesPerEntry(c.colorType) |->
                       IF At(backgroundInfo, dataOffset) = Undefined
                          \/ At(backgroundInfo, dataOffset + 1) = Undefined
                       THEN Undefined
                       ELSE At(backgroundInfo, dataOffset)
                              + 256 * At(backgroundInfo, dataOffset + 1)]
  IN  BKGD_setBackgroundColor(c, color)

(***************************************************************************)
(* chunks/idat                                                             *)
(***************************************************************************)
IDAT_fullPixelSize(c) ==
  determinePixelColorSize(c.colorType) + (IF hasAlphaSample(c.colorType) THEN 1 ELSE 0)

IDAT_calculatePixelAndFilterSize(c) == (c.width * IDAT_fullPixelSize(c) + 1) * c.height

IDAT_calculatePayloadSize(c) ==
  DEFLATE_BLOCKS_SIZE
    + IDAT_calculatePixelAndFilterSize(c)
    + ZLIB_HEADER_SIZE
        * (((DEFLATE_BLOCK_MAX - 1) + IDAT_calculatePixelAndFilterSize(c)) \div DEFLATE_BLOCK_MAX)
    + ADLER_CHECKSUM_SIZE

IDAT_calculateChunkLength(c) == Chunk_calculateChunkLength + IDAT_calculatePayloadSize(c)

IDAT_applyLayoutInformation(c, width, height, depth, colorType) ==
  [c EXCEPT !.width = width, !.height = height, !.depth = depth, !.colorType = colorType]

NewIDAT(width, height, depth, colorType) ==
  LET c == [width |-> width, height |-> height, depth |-> depth, colorType |-> colorType,
            pixelData |-> <<>>, buffer |-> <<>>]
  IN  [c EXCEPT !.buffer = Zeros(IDAT_calculateChunkLength(c)),
                !.pixelData = Zeros(IDAT_calculatePixelAndFilterSize(c))]

\* The bytes update() hands to the codec.
IDAT_pixelAndFilterData(c) ==
  addFilterFields(packByteData(c.pixelData, c.depth),
                  determineDataRowLength(c.depth, c.colorType, c.width),
                  c.height)

\* update() with the CRC taken before the new payload is copied in.
IDAT_update_crcFirst(c) ==
  LET chunkSize == IDAT_calculateChunkLength(c)
      payloadSize == IDAT_calculatePayloadSize(c)
      crc == calculateCrc32(Subarray(c.buffer, CHUNK_LENGTH_SIZE, chunkSize - CHUNK_CRC32_SIZE))
      written == WriteAt(c.buffer, 0,
                   writeUint32(payloadSize) \o ChunkHeaderSequences["IDAT"]
                     \o deflate(IDAT_pixelAndFilterData(c)))
  IN  [c EXCEPT !.buffer = WriteAt(written, chunkSize - CHUNK_CRC32_SIZE, crc)]

IDAT_update(c) ==
  LET chunkSize == IDAT_calculateChunkLength(c)
      payloadSize == IDAT_calculatePayloadSize(c)
      compressedPixelAndFilterData == deflate(IDAT_pixelAndFilterData(c))
      written == WriteAt(c.buffer, 0,
                   writeUint32(payloadSize) \o ChunkHeaderSequences["IDAT"]
                     \o compressedPixelAndFilterData)
      crc == calculateCrc32(Subarray(written, CHUNK_LENGTH_SIZE, chunkSize - CHUNK_CRC32_SIZE))
  IN  [c EXCEPT !.buffer = WriteAt(written, chunkSize - CHUNK_CRC32_SIZE, crc)]

\* ok is FALSE where the codec throws; the chunk buffer is replaced first.
IDAT_load(c, abuf) ==
  LET fresh == [c EXCEPT !.buffer = Zeros(IDAT_calculateChunkLength(c))]
      uncompressed == inflate(Subarray(abuf, Chunk_calculateDataOffset, Len(abuf)))
      uncompressedData ==
        IF c.depth >= EIGHT /\ INDEXED # c.colorType
        THEN defilter(uncompressed.data, c.width, IDAT_fullPixelSize(c))
        ELSE uncompressed.data
      pixelOnlyData ==
        removeFilterFields(uncompressedData,
                           determineDataRowLength(c.depth, c.colorType, c.width),
                           c.height)
  IN  IF ~uncompressed.ok THEN [ok |-> FALSE, chunk |-> fresh]
      ELSE [ok |-> TRUE,
            chunk |-> [fresh EXCEPT !.pixelData = unpackByteData(pixelOnlyData, c.depth)]]

IDAT_getValueAt(c, index) == At(c.pixelData, index)

\* getData() returns the sample buffer whatever it is passed.
IDAT_getData(c) == c.pixelData

\* The pixel at a sample index: one sample for indexed and grayscale, the
\* full tuple otherwise.
IDAT_getPixelOf(c, index) ==
  [k \in 1..IDAT_fullPixelSize(c) |-> At(c.pixelData, index + k - 1)]

RECURSIVE IDAT_setSamples(_, _, _)
IDAT_setSamples(pixelData, index, samples) ==
  IF samples = <<>> THEN pixelData
  ELSE IDAT_setSamples(SetAt(pixelData, index, Head(samples)), index + 1, Tail(samples))

IDAT_setPixelOf(c, index, pixel) ==
  [c EXCEPT !.pixelData = IDAT_setSamples(c.pixelData, index, pixel)]

IDAT_setAlpha(c, value, index) ==
  [c EXCEPT !.pixelData = SetAt(c.pixelData, index + IDAT_fullPixelSize(c) - 1, value)]

(***************************************************************************)
(* rn-png: the document                                                    *)
(***************************************************************************)
VARIABLES
  edits,         \* number of mutating calls made so far
  loads,         \* number of from() calls made so far
  constructed,   \* FALSE when the constructor threw
  _width,
  _height,
  _depth,
  _colorType,
  _chunks,       \* [IHDR, PLTE, tRNS, bKGD, IDAT]; prefix and IEND hold no state
  last           \* the last call: [op, arg, err]; err = "" when it returned

vars == <<edits, loads, constructed, _width, _height, _depth, _colorType, _chunks, last>>

\* The document as one value.
Doc ==
  [_width |-> _width, _height |-> _height, _depth |-> _depth,
   _colorType |-> _colorType, _chunks |-> _chunks]

Call(op, arg, err, ret) == [op |-> op, arg |-> arg, err |-> err, ret |-> ret]

\* The checks of _applyMetaData without the rejection of depths above 8.
validMetaData_noUpperBound(metaData) ==
  /\ metaData.depth \in BitDepths
  /\ metaData.colorType \in ColorTypes

\* The checks _applyMetaData makes before it stores anything.
validMetaData(metaData) ==
  /\ metaData.depth \in BitDepths
  /\ ~(metaData.depth > EIGHT)
  /\ metaData.colorType \in ColorTypes

_applyMetaData(d, metaData) ==
  [d EXCEPT !._width = metaData.width, !._height = metaData.height,
            !._depth = metaData.depth, !._colorType = metaData.colorType]

_initializeChunks(width, height, depth, colorType) ==
  [IHDR |-> NewIHDR(width, height, depth, colorType),
   IDAT |-> NewIDAT(width, height, depth, colorType),
   PLTE |-> IF isIndexed(colorType) THEN NewPLTE(computeMaxNumberOfColors(depth))
            ELSE NoPLTE,
   tRNS |-> NoTRNS,
   bKGD |-> NoBKGD]

_doesContainChunk(d, chunkHeader) ==
  CASE chunkHeader = "PLTE" -> d._chunks.PLTE.present
    [] chunkHeader = "tRNS" -> d._chunks.tRNS.present
    [] chunkHeader = "bKGD" -> d._chunks.bKGD.present
    [] OTHER -> TRUE

_translateXyToIndex(d, x, y) ==
  LET pixelColorSize == determinePixelColorSize(d._colorType)
      fullPixelSize == pixelColorSize + (IF hasAlphaSample(d._colorType) THEN 1 ELSE 0)
  IN  y * (d._width * fullPixelSize) + (x * fullPixelSize)

\* options.x || default: 0 and a missing option both take the default.
OrDefault(option, default) == IF option = 0 \/ option = Undefined THEN default ELSE option

\* The metadata the constructor applies for the given options.
ConstructorMetaData(options) ==
  [width |-> OrDefault(options.width, 0),
   height |-> OrDefault(options.height, 0),
   depth |-> OrDefault(options.depth, EIGHT),
   colorType |-> OrDefault(options.colorType, INDEXED)]

getMetaData(d) ==
  [width |-> d._width, height |-> d._height, depth |-> d._depth, colorType |-> d._colorType]

(***************************************************************************)
(* getBuffer                                                               *)
(***************************************************************************)
\* Every present chunk re-encodes itself; only IDAT keeps its buffer.
_updateChunks(d) == [d EXCEPT !._chunks.IDAT = IDAT_update(d._chunks.IDAT)]

\* The encoded bytes of a present chunk after _updateChunks.
ChunkBuffer(d, chunkType) ==
  CASE chunkType = "IHDR" -> IHDR_update(d._chunks.IHDR)
    [] chunkType = "PLTE" -> PLTE_update(d._chunks.PLTE)
    [] chunkType = "tRNS" -> TRNS_update(d._chunks.tRNS)
    [] chunkType = "bKGD" -> BKGD_update(d._chunks.bKGD)
    [] chunkType = "IDAT" -> d._chunks.IDAT.buffer
    [] chunkType = "IEND" -> FramedChunk("IEND", <<>>)

ChunkLength(d, chunkType) ==
  CASE chunkType = "IHDR" -> Chunk_calculateChunkLength + 13
    [] chunkType = "PLTE" -> Chunk_calculateChunkLength + 3 * Len(d._chunks.PLTE.palette)
    [] chunkType = "tRNS" -> Len(TRNS_update(d._chunks.tRNS))
    [] chunkType = "bKGD" -> BKGD_calculateChunkLength(d._chunks.bKGD)
    [] chunkType = "IDAT" -> IDAT_calculateChunkLength(d._chunks.IDAT)
    [] chunkType = "IEND" -> Chunk_calculateChunkLength

RECURSIVE TotalSize(_, _)
TotalSize(d, k) ==
  IF k > Len(SupportedChunks) THEN 0
  ELSE (IF _doesContainChunk(d, SupportedChunks[k])
        THEN ChunkLength(d, SupportedChunks[k]) ELSE 0) + TotalSize(d, k + 1)

\* copyInto for SupportedChunks[k..] in order, starting at offset.
RECURSIVE CopyChunks(_, _, _, _)
CopyChunks(d, bufView, k, offset) ==
  IF k > Len(SupportedChunks) THEN bufView
  ELSE IF ~_doesContainChunk(d, SupportedChunks[k]) THEN CopyChunks(d, bufView, k + 1, offset)
  ELSE CopyChunks(d, WriteAt(bufView, offset, ChunkBuffer(d, SupportedChunks[k])),
                  k + 1, offset + ChunkLength(d, SupportedChunks[k]))

\* _buildBuffer that does not advance the offset past the signature.
_buildBuffer_fromZero(d) ==
  LET totalSize == Len(PngSignature) + TotalSize(d, 1)
  IN  CopyChunks(d, WriteAt(Zeros(totalSize), 0, PngSignature), 1, 0)

_buildBuffer(d) ==
  LET totalSize == Len(PngSignature) + TotalSize(d, 1)
  IN  CopyChunks(d, WriteAt(Zeros(totalSize), 0, PngSignature), 1, Len(PngSignature))

getBuffer(d) ==
  LET updated == _updateChunks(d)
  IN  [doc |-> updated, ret |-> _buildBuffer(updated)]

(***************************************************************************)
(* from                                                                    *)
(***************************************************************************)
\* _loadChunk that decodes the pixel data with the layout the chunk already has.
_loadChunk_staleLayout(d, chunkHeader, bufView, strictReads) ==
  CASE chunkHeader = "IHDR" ->
         LET chunk == IHDR_load(bufView)
             loaded == [d EXCEPT !._chunks.IHDR = chunk]
         IN  IF validMetaData(chunk)
             THEN [doc |-> _applyMetaData(loaded, chunk), err |-> ""]
             ELSE [doc |-> loaded, err |-> "InvalidMetadata"]
    [] chunkHeader = "tRNS" ->
         [doc |-> [d EXCEPT !._chunks.tRNS =
                     TRNS_load(NewTRNS(d._colorType, computeMaxNumberOfColors(d._depth)),
                               bufView)],
          err |-> ""]
    [] chunkHeader = "PLTE" ->
         [doc |-> [d EXCEPT !._chunks.PLTE =
                     PLTE_load(NewPLTE(computeMaxNumberOfColors(d._depth)), bufView)],
          err |-> ""]
    [] chunkHeader = "bKGD" ->
         LET created == NewBKGD(d._colorType)
             r == BKGD_load(created, bufView)
         IN  IF strictReads \/ ~r.ok
             THEN [doc |-> [d EXCEPT !._chunks.bKGD = created],
                   err |-> IF strictReads THEN "RangeError" ELSE "SampleCountMismatch"]
             ELSE [doc |-> [d EXCEPT !._chunks.bKGD = r.chunk], err |-> ""]
    [] chunkHeader = "IDAT" ->
         LET r == IDAT_load(d._chunks.IDAT, bufView)
         IN  [doc |-> [d EXCEPT !._chunks.IDAT = r.chunk],
              err |-> IF r.ok THEN "" ELSE "CodecError"]

\* strictReads: whether a read outside a view throws (a checked view) or
\* gives undefined (an indexed typed array).
_loadChunk(d, chunkHeader, bufView, strictReads) ==
  CASE chunkHeader = "IHDR" ->
         LET chunk == IHDR_load(bufView)
             loaded == [d EXCEPT !._chunks.IHDR = chunk]
         IN  IF validMetaData(chunk)
             THEN [doc |-> _applyMetaData(loaded, chunk), err |-> ""]
             ELSE [doc |-> loaded, err |-> "InvalidMetadata"]
    [] chunkHeader = "tRNS" ->
         [doc |-> [d EXCEPT !._chunks.tRNS =
                     TRNS_load(NewTRNS(d._colorType, computeMaxNumberOfColors(d._depth)),
                               bufView)],
          err |-> ""]
    [] chunkHeader = "PLTE" ->
         [doc |-> [d EXCEPT !._chunks.PLTE =
                     PLTE_load(NewPLTE(computeMaxNumberOfColors(d._depth)), bufView)],
          err |-> ""]
    [] chunkHeader = "bKGD" ->
         LET created == NewBKGD(d._colorType)
             r == BKGD_load(created, bufView)
         IN  IF strictReads \/ ~r.ok
             THEN [doc |-> [d EXCEPT !._chunks.bKGD = created],
                   err |-> IF strictReads THEN "RangeError" ELSE "SampleCountMismatch"]
             ELSE [doc |-> [d EXCEPT !._chunks.bKGD = r.chunk], err |-> ""]
    [] chunkHeader = "IDAT" ->
         LET r == IDAT_load(IDAT_applyLayoutInformation(d._chunks.IDAT, d._width, d._height,
                                                        d._depth, d._colorType),
                            bufView)
         IN  [doc |-> [d EXCEPT !._chunks.IDAT = r.chunk],
              err |-> IF r.ok THEN "" ELSE "CodecError"]

\* The forEach over SupportedChunks from position k, searching from startIndex.
RECURSIVE LoadChunks(_, _, _, _, _)
LoadChunks(d, bufView, k, startIndex, strictReads) ==
  IF k > Len(SupportedChunks) \/ SupportedChunks[k] = "IEND" THEN [doc |-> d, err |-> ""]
  ELSE LET chunkHeader == SupportedChunks[k]
           tmpHeaderIndex ==
             indexOfSequence(bufView, ChunkHeaderSequences[chunkHeader], startIndex)
       IN  IF tmpHeaderIndex = -1 THEN LoadChunks(d, bufView, k + 1, startIndex, strictReads)
           ELSE LET r == _loadChunk(d, chunkHeader,
                                    Subarray(bufView, tmpHeaderIndex - CHUNK_LENGTH_SIZE,
                                             Len(bufView)),
                                    strictReads)
                IN  IF r.err # "" THEN r
                    ELSE LoadChunks(r.doc, bufView, k + 1, tmpHeaderIndex + 4, strictReads)

verify(bufView) ==
  /\ indexOfSequence(bufView, PngSignature, 0) # -1
  /\ indexOfSequence(bufView, ChunkHeaderSequences["IHDR"], 0) # -1
  /\ indexOfSequence(bufView, ChunkHeaderSequences["IDAT"], 0) # -1
  /\ indexOfSequence(bufView, ChunkHeaderSequences["IEND"], 0) # -1

\* from() that drops the default palette chunk before it verifies the buffer.
from_deleteFirst(d, bufView, strictReads) ==
  IF ~verify(bufView) THEN [doc |-> [d EXCEPT !._chunks.PLTE = NoPLTE], err |-> "NotAPng"]
  ELSE LoadChunks([d EXCEPT !._chunks.PLTE = NoPLTE], bufView, 1, 0, strictReads)

from(d, bufView, strictReads) ==
  IF ~verify(bufView) THEN [doc |-> d, err |-> "NotAPng"]
  ELSE LoadChunks([d EXCEPT !._chunks.PLTE = NoPLTE], bufView, 1, 0, strictReads)

(***************************************************************************)
(* Readers                                                                 *)
(***************************************************************************)
getPalette(d) == d._chunks.PLTE.palette

\* getPaletteIndexAt that accepts an index equal to the palette length.
getPaletteIndexAt_offByOne(d, pos) ==
  IF ~_doesContainChunk(d, "PLTE") THEN [err |-> "NoPalette", ret |-> Undefined]
  ELSE LET index == _translateXyToIndex(d, pos[1], pos[2])
           paletteIndex == IDAT_getValueAt(d._chunks.IDAT, index)
       IN  IF paletteIndex > Len(getPalette(d))
           THEN [err |-> "IndexOutOfRange", ret |-> Undefined]
           ELSE [err |-> "", ret |-> paletteIndex]

\* [err, ret]: the stored palette index at pos = <<x, y>>.
getPaletteIndexAt(d, pos) ==
  IF ~_doesContainChunk(d, "PLTE") THEN [err |-> "NoPalette", ret |-> Undefined]
  ELSE LET index == _translateXyToIndex(d, pos[1], pos[2])
           paletteIndex == IDAT_getValueAt(d._chunks.IDAT, index)
       IN  IF paletteIndex >= Len(getPalette(d))
           THEN [err |-> "IndexOutOfRange", ret |-> Undefined]
           ELSE [err |-> "", ret |-> paletteIndex]

\* [err, ret]: the palette color of the pixel at pos.
getPaletteColorAt(d, pos) ==
  IF ~_doesContainChunk(d, "PLTE") THEN [err |-> "NoPalette", ret |-> <<>>]
  ELSE LET r == getPaletteIndexAt(d, pos)
       IN  IF r.err # "" THEN [err |-> r.err, ret |-> <<>>]
           ELSE IF r.ret = Undefined THEN [err |-> "IndexOutOfRange", ret |-> <<>>]
           ELSE [err |-> "", ret |-> getPalette(d)[r.ret + 1]]

\* getPixelAt that appends an opaque alpha when there is no transparency chunk.
getPixelAt_alwaysAlpha(d, pos) ==
  LET index == _translateXyToIndex(d, pos[1], pos[2])
      pixel == IDAT_getPixelOf(d._chunks.IDAT, index)
  IN  IF hasAlphaSample(d._colorType) THEN [err |-> "", ret |-> pixel]
      ELSE IF isIndexed(d._colorType)
      THEN LET pixelIndex == pixel[1]
           IN  IF ~_doesContainChunk(d, "PLTE") THEN [err |-> "TypeError", ret |-> <<>>]
               ELSE IF pixelIndex = Undefined \/ pixelIndex >= Len(getPalette(d))
               THEN [err |-> "IndexOutOfRange", ret |-> <<>>]
               ELSE IF _doesContainChunk(d, "tRNS")
               THEN LET opacity == TRNS_getValueOf(d._chunks.tRNS, pixelIndex)
                    IN  [err |-> "",
                         ret |-> Append(getPalette(d)[pixelIndex + 1],
                                        IF opacity = Undefined THEN OPAQUE ELSE opacity)]
               ELSE [err |-> "", ret |-> Append(getPalette(d)[pixelIndex + 1], OPAQUE)]
      ELSE [err |-> "", ret |-> pixel]

\* [err, ret]: the sample tuple getPixelAt returns for pos = <<x, y>>.
getPixelAt(d, pos) ==
  LET index == _translateXyToIndex(d, pos[1], pos[2])
      pixel == IDAT_getPixelOf(d._chunks.IDAT, index)
  IN  IF hasAlphaSample(d._colorType) THEN [err |-> "", ret |-> pixel]
      ELSE IF isIndexed(d._colorType)
      THEN LET pixelIndex == pixel[1]
           IN  IF ~_doesContainChunk(d, "PLTE") THEN [err |-> "TypeError", ret |-> <<>>]
               ELSE IF pixelIndex = Undefined \/ pixelIndex >= Len(getPalette(d))
               THEN [err |-> "IndexOutOfRange", ret |-> <<>>]
               ELSE IF _doesContainChunk(d, "tRNS")
               THEN LET opacity == TRNS_getValueOf(d._chunks.tRNS, pixelIndex)
                    IN  [err |-> "",
                         ret |-> Append(getPalette(d)[pixelIndex + 1],
                                        IF opacity = Undefined THEN OPAQUE ELSE opacity)]
               ELSE [err |-> "", ret |-> getPalette(d)[pixelIndex + 1]]
      ELSE [err |-> "", ret |-> pixel]

\* The palette conversion and the transparencies handed to IDAT.getData are
\* not used by it.
getData(d) == IDAT_getData(d._chunks.IDAT)

\* Every numberOfSamples-th sample of getData() for the alpha color types;
\* one 255 per pixel otherwise.
getOpacities(d) ==
  IF isGrayscaleWithAlpha(d._colorType) \/ isTruecolorWithAlpha(d._colorType)
  THEN LET data == getData(d)
           numberOfSamples == determinePixelColorSize(d._colorType) + 1
       IN  [i \in 1..(Len(data) \div numberOfSamples) |-> data[i * numberOfSamples]]
  ELSE [i \in 1..computeNumberOfPixels(d._width, d._height) |-> OPAQUE]

(***************************************************************************)
(* Mutators: each gives [doc, err]                                         *)
(***************************************************************************)
setTransparency(d, value, index) ==
  LET chunk == IF _doesContainChunk(d, "tRNS") THEN d._chunks.tRNS
               ELSE NewTRNS(d._colorType, computeMaxNumberOfColors(d._depth))
  IN  [d EXCEPT !._chunks.tRNS = TRNS_setTransparency(chunk, value, index)]

\* doesColorExistInTransparencies that never finds the color.
doesColorExistInTransparencies_never(d, colorData) == FALSE

doesColorExistInTransparencies(d, colorData) ==
  _doesContainChunk(d, "tRNS") /\ TRNS_isTransparencySet(d._chunks.tRNS, colorData)

removeTransparency(d, colorData) ==
  IF ~_doesContainChunk(d, "tRNS") THEN [doc |-> d, err |-> "NoTransparency"]
  ELSE IF isIndexed(d._colorType)
  THEN IF ~_doesContainChunk(d, "PLTE") \/ ~PLTE_isColorInPalette(d._chunks.PLTE, colorData)
       THEN [doc |-> d, err |-> "TypeError"]
       ELSE [doc |-> [d EXCEPT !._chunks.tRNS =
                        TRNS_removeTransparencyOf(d._chunks.tRNS,
                          PLTE_getPaletteIndex(d._chunks.PLTE, colorData))],
             err |-> ""]
  ELSE [doc |-> [d EXCEPT !._chunks.tRNS = TRNS_removeTransparency(d._chunks.tRNS, colorData)],
        err |-> ""]

RequiredSamples(d) ==
  IF isIndexed(d._colorType) THEN 3 ELSE determineFullPixelSize(d._colorType)

\* setPixelAt that appends the color without looking it up first.
setPixelAt_alwaysAdd(d, pos, data) ==
  LET index == _translateXyToIndex(d, pos[1], pos[2])
      fullPixelSize == RequiredSamples(d)
      trimmed == Subarray(data, 0, fullPixelSize + 1)
      colorData == Subarray(trimmed, 0, fullPixelSize)
      opacityData == IF Len(trimmed) > fullPixelSize THEN trimmed[Len(trimmed)] ELSE Undefined
  IN  IF Len(data) < fullPixelSize THEN [doc |-> d, err |-> "InsufficientSamples"]
      ELSE IF hasAlphaSample(d._colorType)
      THEN [doc |-> [d EXCEPT !._chunks.IDAT =
                       IDAT_setPixelOf(d._chunks.IDAT, index, Subarray(data, 0, fullPixelSize))],
            err |-> ""]
      ELSE IF isIndexed(d._colorType)
      THEN IF ~_doesContainChunk(d, "PLTE") THEN [doc |-> d, err |-> "TypeError"]
           ELSE IF ~PLTE_isColorInPalette(d._chunks.PLTE, colorData)
                   /\ PLTE_isFull(d._chunks.PLTE)
           THEN [doc |-> d, err |-> "PaletteFull"]
           ELSE LET plte == PLTE_addColor(d._chunks.PLTE, colorData)
                    paletteIndex == Len(plte.palette) - 1
                    written == [d EXCEPT !._chunks.PLTE = plte,
                                         !._chunks.IDAT =
                                           IDAT_setPixelOf(d._chunks.IDAT, index, <<paletteIndex>>)]
                IN  [doc |-> IF opacityData # Undefined
                             THEN setTransparency(written, opacityData, paletteIndex)
                             ELSE written,
                     err |-> ""]
      ELSE LET written == [d EXCEPT !._chunks.IDAT =
                             IDAT_setPixelOf(d._chunks.IDAT, index, colorData)]
           IN  IF opacityData = Undefined THEN [doc |-> written, err |-> ""]
               ELSE IF OPAQUE = opacityData /\ doesColorExistInTransparencies(written, colorData)
               THEN removeTransparency(written, colorData)
               ELSE [doc |-> setTransparency(written, colorData, -1), err |-> ""]

\* setPixelAt that writes the samples it was given before counting them.
setPixelAt_writeFirst(d, pos, data) ==
  LET index == _translateXyToIndex(d, pos[1], pos[2])
      fullPixelSize == RequiredSamples(d)
      trimmed == Subarray(data, 0, fullPixelSize + 1)
      colorData == Subarray(trimmed, 0, fullPixelSize)
      opacityData == IF Len(trimmed) > fullPixelSize THEN trimmed[Len(trimmed)] ELSE Undefined
  IN  IF Len(data) < fullPixelSize
      THEN [doc |-> [d EXCEPT !._chunks.IDAT = IDAT_setPixelOf(d._chunks.IDAT, index, data)],
            err |-> "InsufficientSamples"]
      ELSE IF hasAlphaSample(d._colorType)
      THEN [doc |-> [d EXCEPT !._chunks.IDAT =
                       IDAT_setPixelOf(d._chunks.IDAT, index, Subarray(data, 0, fullPixelSize))],
            err |-> ""]
      ELSE IF isIndexed(d._colorType)
      THEN IF ~_doesContainChunk(d, "PLTE") THEN [doc |-> d, err |-> "TypeError"]
           ELSE IF ~PLTE_isColorInPalette(d._chunks.PLTE, colorData)
                   /\ PLTE_isFull(d._chunks.PLTE)
           THEN [doc |-> d, err |-> "PaletteFull"]
           ELSE LET plte == IF PLTE_isColorInPalette(d._chunks.PLTE, colorData)
                            THEN d._chunks.PLTE
                            ELSE PLTE_addColor(d._chunks.PLTE, colorData)
                    paletteIndex == PLTE_getPaletteIndex(plte, colorData)
                    written == [d EXCEPT !._chunks.PLTE = plte,
                                         !._chunks.IDAT =
                                           IDAT_setPixelOf(d._chunks.IDAT, index, <<paletteIndex>>)]
                IN  [doc |-> IF opacityData # Undefined
                             THEN setTransparency(written, opacityData, paletteIndex)
                             ELSE written,
                     err |-> ""]
      ELSE LET written == [d EXCEPT !._chunks.IDAT =
                             IDAT_setPixelOf(d._chunks.IDAT, index, colorData)]
           IN  IF opacityData = Undefined THEN [doc |-> written, err |-> ""]
               ELSE IF OPAQUE = opacityData /\ doesColorExistInTransparencies(written, colorData)
               THEN removeTransparency(written, colorData)
               ELSE [doc |-> setTransparency(written, colorData, -1), err |-> ""]

setPixelAt(d, pos, data) ==
  LET index == _translateXyToIndex(d, pos[1], pos[2])
      fullPixelSize == RequiredSamples(d)
      trimmed == Subarray(data, 0, fullPixelSize + 1)
      colorData == Subarray(trimmed, 0, fullPixelSize)
      opacityData == IF Len(trimmed) > fullPixelSize THEN trimmed[Len(trimmed)] ELSE Undefined
  IN  IF Len(data) < fullPixelSize THEN [doc |-> d, err |-> "InsufficientSamples"]
      ELSE IF hasAlphaSample(d._colorType)
      THEN [doc |-> [d EXCEPT !._chunks.IDAT =
                       IDAT_setPixelOf(d._chunks.IDAT, index, Subarray(data, 0, fullPixelSize))],
            err |-> ""]
      ELSE IF isIndexed(d._colorType)
      THEN IF ~_doesContainChunk(d, "PLTE") THEN [doc |-> d, err |-> "TypeError"]
           ELSE IF ~PLTE_isColorInPalette(d._chunks.PLTE, colorData)
                   /\ PLTE_isFull(d._chunks.PLTE)
           THEN [doc |-> d, err |-> "PaletteFull"]
           ELSE LET plte == IF PLTE_isColorInPalette(d._chunks.PLTE, colorData)
                            THEN d._chunks.PLTE
                            ELSE PLTE_addColor(d._chunks.PLTE, colorData)
                    paletteIndex == PLTE_getPaletteIndex(plte, colorData)
                    written == [d EXCEPT !._chunks.PLTE = plte,
                                         !._chunks.IDAT =
                                           IDAT_setPixelOf(d._chunks.IDAT, index, <<paletteIndex>>)]
                IN  [doc |-> IF opacityData # Undefined
                             THEN setTransparency(written, opacityData, paletteIndex)
                             ELSE written,
                     err |-> ""]
      ELSE LET written == [d EXCEPT !._chunks.IDAT =
                             IDAT_setPixelOf(d._chunks.IDAT, index, colorData)]
           IN  IF opacityData = Undefined THEN [doc |-> written, err |-> ""]
               ELSE IF OPAQUE = opacityData /\ doesColorExistInTransparencies(written, colorData)
               THEN removeTransparency(written, colorData)
               ELSE [doc |-> setTransparency(written, colorData, -1), err |-> ""]

setOpacityAt(d, pos, value) ==
  LET index == _translateXyToIndex(d, pos[1], pos[2])
      paletteIndex == IDAT_getValueAt(d._chunks.IDAT, index)
  IN  IF ~hasAlphaSample(d._colorType) /\ ~isIndexed(d._colorType)
      THEN [doc |-> d, err |-> "UnsupportedOperation"]
      ELSE IF hasAlphaSample(d._colorType)
      THEN [doc |-> [d EXCEPT !._chunks.IDAT = IDAT_setAlpha(d._chunks.IDAT, value, index)],
            err |-> ""]
      ELSE IF ~_doesContainChunk(d, "PLTE") THEN [doc |-> d, err |-> "NoPalette"]
      ELSE IF paletteIndex >= Len(getPalette(d)) THEN [doc |-> d, err |-> "IndexOutOfRange"]
      ELSE [doc |-> setTransparency(d, value, paletteIndex), err |-> ""]

setBackground(d, colorData) ==
  IF _doesContainChunk(d, "PLTE") /\ ~_doesContainChunk(d, "bKGD")
  THEN [doc |-> [d EXCEPT !._chunks.PLTE = PLTE_setColorOf(d._chunks.PLTE, 0, colorData)],
        err |-> ""]
  ELSE LET chunk == IF _doesContainChunk(d, "bKGD") THEN d._chunks.bKGD
                    ELSE NewBKGD(d._colorType)
           r == BKGD_setBackgroundColor(chunk, colorData)
       IN  [doc |-> [d EXCEPT !._chunks.bKGD = r.chunk],
            err |-> IF r.ok THEN "" ELSE "SampleCountMismatch"]

(***************************************************************************)
(* Inputs                                                                  *)
(***************************************************************************)
WidthOptions == {0, MaxWidth}
HeightOptions == {MaxHeight}
DepthOptions == {0, 1, 8, 16}
ColorTypeOptions == {0, 2, 3, 4, 5, 6}

ColorA == <<73, 68, 65>>
ColorB == <<84, 1, 0>>
ColorC == <<0, 255, 0>>

MaxSample(depth) == Pow2(depth) - 1

\* The last pixel of the image.
Positions(d) ==
  IF d._width = 0 \/ d._height = 0 THEN {} ELSE {<<d._width - 1, d._height - 1>>}

AllPositions(d) == (0..(d._width - 1)) \X (0..(d._height - 1))

\* Sample tuples offered to setPixelAt: in-range samples for the depth, with
\* and without a trailing opacity, and one tuple that is too short.
PixelInputs(d) ==
  LET m == MaxSample(d._depth)
  IN  CASE isIndexed(d._colorType) ->
             {ColorA, ColorB, ColorA \o <<100>>, <<1, 2>>}
               \cup (IF computeMaxNumberOfColors(d._depth) = 2 THEN {ColorC} ELSE {})
        [] isGrayscale(d._colorType) -> {<<m>>, <<m, 0>>, <<m, 255>>, <<>>}
        [] isTruecolor(d._colorType) ->
             {<<1, 0, m>>, <<1, 0, m, 0>>, <<1, 0, m, 255>>, <<1, 0>>}
        [] isGrayscaleWithAlpha(d._colorType) -> {<<1, m>>, <<1>>}
        [] OTHER -> {<<1, 0, m, 1>>, <<1, 0, m>>}

\* Colors offered to setBackground: an RGB color, and a one-sample color where
\* the call reaches the background chunk.
BackgroundInputs(d) ==
  IF _doesContainChunk(d, "PLTE") /\ ~_doesContainChunk(d, "bKGD")
  THEN {ColorC}
  ELSE {ColorC, <<1>>}

\* A grayscale image produced elsewhere: first sample 1, last sample the
\* largest of its depth; the one of depth 4 also carries a color-key and a
\* background color.
ExternalDoc(depth) ==
  LET chunks == _initializeChunks(MaxWidth, MaxHeight, depth, GRAYSCALE)
      n == MaxWidth * MaxHeight
      bare == [_width |-> MaxWidth, _height |-> MaxHeight, _depth |-> depth,
               _colorType |-> GRAYSCALE,
               _chunks |-> [chunks EXCEPT !.IDAT.pixelData =
                              [i \in 1..n |-> IF i = n THEN MaxSample(depth)
                                              ELSE IF i = 1 THEN 1 ELSE 0]]]
  IN  IF depth = 4
      THEN setBackground(setTransparency(bare, <<1>>, -1), <<MaxSample(depth)>>).doc
      ELSE bare

ExternalBuffers == {getBuffer(ExternalDoc(depth)).ret : depth \in {2, 4}}

\* buffer with the first byte of one required marker overwritten.
WithoutMarker(buffer, seq) ==
  LET i == indexOfSequence(buffer, seq, 0)
  IN  IF i = -1 THEN buffer ELSE [buffer EXCEPT ![i + 1] = 0]

\* The offsets of the header's fields in an encoded image.
IHDR_WIDTH_OFFSET == 16
IHDR_HEIGHT_OFFSET == 20
IHDR_DEPTH_OFFSET == 24
IHDR_COLORTYPE_OFFSET == 25

\* buffer with one required marker, or the header's depth or color type
\* byte, overwritten.
Damaged(buffer) ==
  {WithoutMarker(buffer, PngSignature),
   WithoutMarker(buffer, ChunkHeaderSequences["IHDR"]),
   WithoutMarker(buffer, ChunkHeaderSequences["IDAT"]),
   WithoutMarker(buffer, ChunkHeaderSequences["IEND"]),
   [buffer EXCEPT ![IHDR_DEPTH_OFFSET + 1] = 16],
   [buffer EXCEPT ![IHDR_DEPTH_OFFSET + 1] = 0],
   [buffer EXCEPT ![IHDR_COLORTYPE_OFFSET + 1] = 5]}

\* Whether seq occurs somewhere in buf.
Contains(buf, seq) ==
  \E i \in 0..(Len(buf) - Len(seq)) : \A k \in 1..Len(seq) : buf[i + k] = seq[k]

\* What a caller knows about a buffer it passes to from(): whether it is the
\* encoding of the document as it is now, which markers occur in it, and the
\* fields of its header.
Describe(buffer, own, strictReads) ==
  [own |-> own,
   strictReads |-> strictReads,
   signature |-> Contains(buffer, PngSignature),
   IHDR |-> Contains(buffer, ChunkHeaderSequences["IHDR"]),
   IDAT |-> Contains(buffer, ChunkHeaderSequences["IDAT"]),
   IEND |-> Contains(buffer, ChunkHeaderSequences["IEND"]),
   PLTE |-> Contains(buffer, ChunkHeaderSequences["PLTE"]),
   tRNS |-> Contains(buffer, ChunkHeaderSequences["tRNS"]),
   bKGD |-> Contains(buffer, ChunkHeaderSequences["bKGD"]),
   width |-> readUint32At(buffer, IHDR_WIDTH_OFFSET),
   height |-> readUint32At(buffer, IHDR_HEIGHT_OFFSET),
   depth |-> At(buffer, IHDR_DEPTH_OFFSET),
   colorType |-> At(buffer, IHDR_COLORTYPE_OFFSET)]

\* Buffers offered to from(): the encoding of the document as it is now,
\* damaged copies of it, and images produced elsewhere.
LoadInputs ==
  LET own == getBuffer(Doc).ret
  IN  {[buffer |-> b, own |-> FALSE] : b \in ExternalBuffers \cup Damaged(own)}
        \cup {[buffer |-> own, own |-> TRUE]}

(***************************************************************************)
(* Construction and the operations of the document                         *)
(***************************************************************************)
Install(d) ==
  /\ _width' = d._width
  /\ _height' = d._height
  /\ _depth' = d._depth
  /\ _colorType' = d._colorType
  /\ _chunks' = d._chunks

Init ==
  \E w \in WidthOptions, h \in HeightOptions, dp \in DepthOptions, ct \in ColorTypeOptions :
    LET options == [width |-> w, height |-> h, depth |-> dp, colorType |-> ct]
        metaData == ConstructorMetaData(options)
        ok == validMetaData(metaData)
        m == IF ok THEN metaData
             ELSE [width |-> 0, height |-> 0, depth |-> EIGHT, colorType |-> INDEXED]
    IN  /\ edits = 0
        /\ loads = 0
        /\ constructed = ok
        /\ _width = m.width
        /\ _height = m.height
        /\ _depth = m.depth
        /\ _colorType = m.colorType
        /\ _chunks = _initializeChunks(m.width, m.height, m.depth, m.colorType)
        /\ last = Call("constructor", options, IF ok THEN "" ELSE "InvalidMetadata", <<>>)

GetBuffer ==
  /\ constructed
  /\ LET r == getBuffer(Doc)
     IN  /\ Install(r.doc)
         /\ last' = Call("getBuffer", <<>>, "", <<>>)
  /\ UNCHANGED <<edits, loads, constructed>>

From ==
  /\ constructed
  /\ loads < MaxLoads
  /\ \E input \in LoadInputs :
       \E strictReads \in (IF Contains(input.buffer, ChunkHeaderSequences["bKGD"])
                           THEN BOOLEAN ELSE {FALSE}) :
       LET r == from(Doc, input.buffer, strictReads)
       IN  /\ Install(r.doc)
           /\ last' = Call("from", Describe(input.buffer, input.own, strictReads), r.err, <<>>)
  /\ loads' = loads + 1
  /\ UNCHANGED <<edits, constructed>>

SetPixelAt ==
  /\ constructed
  /\ edits < MaxEdits
  /\ \E pos \in Positions(Doc), data \in PixelInputs(Doc) :
       LET r == setPixelAt(Doc, pos, data)
       IN  /\ Install(r.doc)
           /\ last' = Call("setPixelAt", <<>>, r.err, <<>>)
  /\ edits' = edits + 1
  /\ UNCHANGED <<loads, constructed>>

SetOpacityAt ==
  /\ constructed
  /\ edits < MaxEdits
  /\ \E pos \in Positions(Doc) :
       LET r == setOpacityAt(Doc, pos, 100)
       IN  /\ Install(r.doc)
           /\ last' = Call("setOpacityAt", <<>>, r.err, <<>>)
  /\ edits' = edits + 1
  /\ UNCHANGED <<loads, constructed>>

SetBackground ==
  /\ constructed
  /\ edits < MaxEdits
  /\ \E colorData \in BackgroundInputs(Doc) :
       LET r == setBackground(Doc, colorData)
       IN  /\ Install(r.doc)
           /\ last' = Call("setBackground", <<>>, r.err, <<>>)
  /\ edits' = edits + 1
  /\ UNCHANGED <<loads, constructed>>

GetPaletteIndexAt ==
  /\ constructed
  /\ \E pos \in Positions(Doc) :
       LET r == getPaletteIndexAt(Doc, pos)
       IN  last' = Call("getPaletteIndexAt", pos, r.err, r.ret)
  /\ UNCHANGED <<edits, loads, constructed, _width, _height, _depth, _colorType, _chunks>>

GetPaletteColorAt ==
  /\ constructed
  /\ \E pos \in Positions(Doc) :
       LET r == getPaletteColorAt(Doc, pos)
       IN  last' = Call("getPaletteColorAt", pos, r.err, r.ret)
  /\ UNCHANGED <<edits, loads, constructed, _width, _height, _depth, _colorType, _chunks>>

GetOpacities ==
  /\ constructed
  /\ last' = Call("getOpacities", <<>>, "", getOpacities(Doc))
  /\ UNCHANGED <<edits, loads, constructed, _width, _height, _depth, _colorType, _chunks>>

Next ==
  \/ GetBuffer
  \/ From
  \/ SetPixelAt
  \/ SetOpacityAt
  \/ SetBackground
  \/ GetPaletteIndexAt
  \/ GetPaletteColorAt
  \/ GetOpacities

Spec == Init /\ [][Next]_vars

(***************************************************************************)
(* Properties                                                              *)
(***************************************************************************)
\* Every pixel of d can be read.
FullyWritten(d) == \A pos \in AllPositions(d) : getPixelAt(d, pos).err = ""

\* Every stored sample fits the bit depth of d.
SamplesInRange(d) ==
  \A i \in 1..Len(d._chunks.IDAT.pixelData) : d._chunks.IDAT.pixelData[i] < Pow2(d._depth)

\* C1: round trip.  When a document that was built by construction and
\* setters, has a depth in {1,2,4,8}, holds only samples that fit its depth and
\* has every pixel readable loads its own encoding, the load succeeds, the
\* metadata is what it was and getPixelAt gives what it gave before at every
\* position.
C1_RoundTrip ==
  [][(/\ last'.op = "from"
      /\ last'.arg.own
      /\ ~last'.arg.strictReads
      /\ loads = 0
      /\ _depth \in {1, 2, 4, 8}
      /\ SamplesInRange(Doc)
      /\ FullyWritten(Doc))
     => /\ last'.err = ""
        /\ getMetaData(Doc') = getMetaData(Doc)
        /\ \A pos \in AllPositions(Doc) : getPixelAt(Doc', pos) = getPixelAt(Doc, pos)]_vars

ColorOf(data) == Subarray(data, 0, 3)

\* The palette index stored at pos.
StoredIndex(d, pos) == IDAT_getValueAt(d._chunks.IDAT, _translateXyToIndex(d, pos[1], pos[2]))

\* C3: palette growth.  On an indexed image with a palette, setPixelAt with a
\* color already in the palette leaves the palette as it is and stores an
\* index at which the palette holds that color; with a new color and room in
\* the palette (fewer than 2^depth entries) it appends the color and stores
\* the index new length - 1; with a new color and a full palette it fails with
\* PaletteFull and changes nothing.
C3_PaletteGrowth ==
  (constructed /\ isIndexed(_colorType) /\ _doesContainChunk(Doc, "PLTE")) =>
    \A pos \in AllPositions(Doc), data \in PixelInputs(Doc) :
      Len(data) >= 3 =>
        LET r == setPixelAt(Doc, pos, data)
            before == getPalette(Doc)
            after == getPalette(r.doc)
        IN  IF \E i \in 1..Len(before) : before[i] = ColorOf(data)
            THEN /\ r.err = ""
                 /\ after = before
                 /\ after[StoredIndex(r.doc, pos) + 1] = ColorOf(data)
            ELSE IF Len(before) < Pow2(_depth)
            THEN /\ r.err = ""
                 /\ after = Append(before, ColorOf(data))
                 /\ StoredIndex(r.doc, pos) = Len(after) - 1
            ELSE /\ r.err = "PaletteFull"
                 /\ r.doc = Doc

\* C3 as stated: every color not yet in the palette makes the palette one
\* entry longer and is stored as the index new length - 1.
C3_AlwaysGrows ==
  (constructed /\ isIndexed(_colorType) /\ _doesContainChunk(Doc, "PLTE")) =>
    \A pos \in AllPositions(Doc), data \in PixelInputs(Doc) :
      (Len(data) >= 3 /\ \A i \in 1..Len(getPalette(Doc)) : getPalette(Doc)[i] # ColorOf(data)) =>
        LET r == setPixelAt(Doc, pos, data)
        IN  /\ Len(getPalette(r.doc)) = Len(getPalette(Doc)) + 1
            /\ StoredIndex(r.doc, pos) = Len(getPalette(r.doc)) - 1

\* setPixelAt has just filled the palette of a one-bit indexed image.
C3_Witness ==
  /\ last.op = "setPixelAt"
  /\ last.err = ""
  /\ isIndexed(_colorType)
  /\ _depth = 1
  /\ Len(getPalette(Doc)) = 2

\* C4: transparency default.  On an indexed image, for every pixel whose
\* stored index is in the palette: with no transparency chunk getPixelAt
\* returns the palette color alone, three samples and no alpha; with a
\* transparency chunk that has no entry for the index it returns the color
\* followed by alpha 255.
C4_TransparencyDefault ==
  (constructed /\ isIndexed(_colorType) /\ _doesContainChunk(Doc, "PLTE")) =>
    \A pos \in AllPositions(Doc) :
      LET index == StoredIndex(Doc, pos)
          r == getPixelAt(Doc, pos)
      IN  (index >= 0 /\ index < Len(getPalette(Doc))) =>
            /\ r.err = ""
            /\ ~_doesContainChunk(Doc, "tRNS") =>
                 (Len(r.ret) = 3 /\ r.ret = getPalette(Doc)[index + 1])
            /\ (/\ _doesContainChunk(Doc, "tRNS")
                /\ index >= Len(_chunks.tRNS.transparencies)) =>
                 r.ret = getPalette(Doc)[index + 1] \o <<255>>

\* C4 as stated: with no transparency chunk, getPixelAt returns a tuple whose
\* alpha sample is 255 for every pixel whose stored index is in the palette.
C4_AlphaWithoutChunk ==
  (/\ constructed
   /\ isIndexed(_colorType)
   /\ _doesContainChunk(Doc, "PLTE")
   /\ ~_doesContainChunk(Doc, "tRNS")) =>
    \A pos \in AllPositions(Doc) :
      LET index == StoredIndex(Doc, pos)
          r == getPixelAt(Doc, pos)
      IN  (index >= 0 /\ index < Len(getPalette(Doc))) =>
            /\ r.err = ""
            /\ Len(r.ret) = 4
            /\ r.ret[4] = 255

\* An indexed image with a written pixel and no transparency chunk.
C4_Witness ==
  /\ constructed
  /\ last.op = "setPixelAt"
  /\ last.err = ""
  /\ isIndexed(_colorType)
  /\ ~_doesContainChunk(Doc, "tRNS")
  /\ \E pos \in AllPositions(Doc) :
       StoredIndex(Doc, pos) < Len(getPalette(Doc)) /\ getPixelAt(Doc, pos).err = ""

\* C5: palette readers.  A call of getPaletteIndexAt or getPaletteColorAt at
\* a position of the image leaves the document as it was; it fails with
\* NoPalette when there is no palette chunk, fails with IndexOutOfRange when
\* the index stored at the position is at least the palette length, and
\* otherwise returns the stored index, respectively the palette color at it.
C5_PaletteReaders ==
  [][last'.op \in {"getPaletteIndexAt", "getPaletteColorAt"} =>
       LET index == StoredIndex(Doc, last'.arg)
       IN  /\ Doc' = Doc
           /\ ~_doesContainChunk(Doc, "PLTE") => last'.err = "NoPalette"
           /\ (_doesContainChunk(Doc, "PLTE") /\ index >= Len(getPalette(Doc))) =>
                last'.err = "IndexOutOfRange"
           /\ (_doesContainChunk(Doc, "PLTE") /\ index >= 0 /\ index < Len(getPalette(Doc))) =>
                /\ last'.err = ""
                /\ last'.op = "getPaletteIndexAt" => last'.ret = index
                /\ last'.op = "getPaletteColorAt" => last'.ret = getPalette(Doc)[index + 1]]_vars

\* getPaletteColorAt has just failed on a pixel of an indexed image whose
\* palette is still empty.
C5_Witness ==
  /\ last.op = "getPaletteColorAt"
  /\ last.err = "IndexOutOfRange"
  /\ isIndexed(_colorType)
  /\ getPalette(Doc) = <<>>

\* The number of samples setPixelAt requires for a color type.
SamplesRequired(colorType) ==
  CASE colorType = INDEXED -> 3
    [] colorType = GRAYSCALE -> 1
    [] colorType = GRAYSCALE_AND_ALPHA -> 2
    [] colorType = TRUECOLOR -> 3
    [] colorType = TRUECOLOR_AND_ALPHA -> 4

\* C6: setPixelAt with fewer samples than the color type requires (3 for
\* indexed, 1 grayscale, 2 grayscale with alpha, 3 truecolor, 4 truecolor with
\* alpha) fails with InsufficientSamples and leaves the sample buffer, the
\* palette and the transparency chunk as they were.
C6_InsufficientSamples ==
  constructed =>
    \A pos \in AllPositions(Doc), data \in PixelInputs(Doc) :
      Len(data) < SamplesRequired(_colorType) =>
        LET r == setPixelAt(Doc, pos, data)
        IN  /\ r.err = "InsufficientSamples"
            /\ r.doc._chunks.IDAT.pixelData = _chunks.IDAT.pixelData
            /\ r.doc._chunks.PLTE = _chunks.PLTE
            /\ r.doc._chunks.tRNS = _chunks.tRNS

\* setPixelAt has just failed for want of samples on a document that holds a
\* transparency chunk.
C6_Witness ==
  /\ last.op = "setPixelAt"
  /\ last.err = "InsufficientSamples"
  /\ _doesContainChunk(Doc, "tRNS")

SupportedDepths == {1, 2, 4, 8}

CanonicalColorTypes == {0, 2, 3, 4, 6}

C8_ConstructWithMetadata ==
  (/\ last.op = "constructor"
   /\ last.arg.depth \in SupportedDepths
   /\ last.arg.colorType \in CanonicalColorTypes
   /\ last.arg.width >= 0
   /\ last.arg.height >= 0) =>
    /\ constructed
    /\ getMetaData(Doc) = [width |-> last.arg.width, height |-> last.arg.height,
                           depth |-> last.arg.depth, colorType |-> last.arg.colorType]
    /\ isIndexed(_colorType) <=> (last.arg.colorType = 3)
    /\ isGrayscale(_colorType) <=> (last.arg.colorType = 0)
    /\ isTruecolor(_colorType) <=> (last.arg.colorType = 2)
    /\ hasAlphaSample(_colorType) <=> (last.arg.colorType \in {4, 6})
    /\ _doesContainChunk(Doc, "PLTE") <=> (last.arg.colorType = 3)

\* C9: exact size prediction.  In every document with a depth in {1,2,4,8},
\* the bytes IDAT.update() hands to deflate number calculatePixelAndFilterSize()
\* = (width * fullPixelSize + 1) * height, the stored-block output numbers
\* calculatePayloadSize() = 2 + size + 5 * ceil(size / 65535) + 4, and the
\* framed output fits the buffer of calculateChunkLength() bytes.
C9_ExactSize ==
  (constructed /\ _chunks.IDAT.depth \in SupportedDepths) =>
    LET c == _chunks.IDAT
        size == (c.width * IDAT_fullPixelSize(c) + 1) * c.height
        handed == IDAT_pixelAndFilterData(c)
    IN  /\ IDAT_calculatePixelAndFilterSize(c) = size
        /\ Len(handed) = size
        /\ IDAT_calculatePayloadSize(c) = 2 + size + 5 * CeilDiv(size, 65535) + 4
        /\ Len(deflate(handed)) = IDAT_calculatePayloadSize(c)
        /\ Chunk_calculateDataOffset + Len(deflate(handed)) + CHUNK_CRC32_SIZE
             <= IDAT_calculateChunkLength(c)

\* C10: a load of a buffer in which the signature, the header marker, the
\* pixel-data marker or the end marker does not occur fails with NotAPng and
\* leaves the metadata, every chunk (a default palette chunk included) and
\* the sample buffer as they were.
C10_NotAPng ==
  [][(/\ last'.op = "from"
      /\ ~(last'.arg.signature /\ last'.arg.IHDR /\ last'.arg.IDAT /\ last'.arg.IEND))
     => /\ last'.err = "NotAPng"
        /\ Doc' = Doc]_vars

\* A load of a buffer without the end marker has just failed on an indexed
\* document that still holds its palette chunk.
C10_Witness ==
  /\ last.op = "from"
  /\ last.err = "NotAPng"
  /\ ~last.arg.IEND
  /\ last.arg.signature /\ last.arg.IHDR /\ last.arg.IDAT
  /\ isIndexed(_colorType)
  /\ _doesContainChunk(Doc, "PLTE")

\* The zero-based i-th pixel in row-major order, as a position.
PixelPosition(d, i) == <<i % d._width, i \div d._width>>

\* C11: getOpacities() returns exactly width * height values; for the two
\* alpha color types the i-th value is the last sample of the tuple
\* getPixelAt returns for the i-th pixel, and for every other color type
\* every value is 255.  This holds in every state of a constructed document,
\* the freshly constructed one included.
C11_Opacities ==
  constructed =>
    LET opacities == getOpacities(Doc)
        n == _width * _height
    IN  /\ Len(opacities) = n
        /\ \A i \in 0..(n - 1) :
             IF hasAlphaSample(_colorType)
             THEN LET pixel == getPixelAt(Doc, PixelPosition(Doc, i)).ret
                  IN  opacities[i + 1] = pixel[Len(pixel)]
             ELSE opacities[i + 1] = OPAQUE

\* The chunks of d that are present, in the order of SupportedChunks.
PresentChunks(d) == {k \in 1..Len(SupportedChunks) : _doesContainChunk(d, SupportedChunks[k])}

\* The sum of the chunk lengths of the signature and of the present chunks
\* that precede SupportedChunks[k].
RECURSIVE OffsetOf(_, _)
OffsetOf(d, k) ==
  IF k = 1 THEN Len(PngSignature)
  ELSE OffsetOf(d, k - 1)
         + (IF (k - 1) \in PresentChunks(d) THEN ChunkLength(d, SupportedChunks[k - 1]) ELSE 0)

\* The encoding a present chunk gives for its state in d when it is updated.
Encoded(d, chunkType) ==
  IF chunkType = "IDAT" THEN IDAT_update(d._chunks.IDAT).buffer ELSE ChunkBuffer(d, chunkType)

\* C12: the buffer getBuffer() returns is as long as the signature and the
\* present chunks together; the signature is at offset 0 and every present
\* chunk, freshly encoded from the state of the document, lies at the offset
\* that is the sum of the lengths of the parts before it in the canonical
\* order, so the parts neither overlap nor leave a byte uncovered.
C12_SaveLayout ==
  constructed =>
    LET buffer == getBuffer(Doc).ret
        end == OffsetOf(Doc, Len(SupportedChunks) + 1)
    IN  /\ Len(buffer) = end
        /\ Subarray(buffer, 0, Len(PngSignature)) = PngSignature
        /\ \A k \in PresentChunks(Doc) :
             /\ Len(Encoded(Doc, SupportedChunks[k])) = ChunkLength(Doc, SupportedChunks[k])
             /\ Subarray(buffer, OffsetOf(Doc, k), OffsetOf(Doc, k + 1))
                  = Encoded(Doc, SupportedChunks[k])

\* A document with both optional chunks that follow the header of a
\* truecolor image has just been saved after its pixel data changed.
C12_Witness ==
  /\ last.op = "getBuffer"
  /\ edits > 0
  /\ _doesContainChunk(Doc, "tRNS")
  /\ _doesContainChunk(Doc, "bKGD")
  /\ ~_doesContainChunk(Doc, "PLTE")

\* C13: in every state of a constructed document the sample buffer of the
\* pixel-data chunk holds exactly width * height * fullPixelSize samples
\* (fullPixelSize 1 for grayscale and indexed, 2 for grayscale with alpha,
\* 3 for truecolor, 4 for truecolor with alpha) and no room for filter bytes.
C13_SampleBufferLength ==
  constructed =>
    Len(_chunks.IDAT.pixelData) = _width * _height * determineFullPixelSize(_colorType)

\* The metadata in the header of the buffer the last from() was given.
HeaderOf(arg) ==
  [width |-> arg.width, height |-> arg.height, depth |-> arg.depth, colorType |-> arg.colorType]

\* C14: after a from() that returned, the document's metadata is the one in
\* the header of the loaded buffer, the pixel-data chunk was decoded with
\* that width, height, depth and color type, and every palette,
\* transparency or background chunk whose marker is in the buffer is
\* present and configured with the header's depth and color type.
C14_LoadOrdering ==
  [][(last'.op = "from" /\ last'.err = "") =>
       LET header == HeaderOf(last'.arg)
           idat == _chunks'.IDAT
       IN  /\ getMetaData(Doc') = header
           /\ [width |-> idat.width, height |-> idat.height,
               depth |-> idat.depth, colorType |-> idat.colorType] = header
           /\ Len(idat.pixelData)
                = Len(unpackByteData(
                        Zeros(determineDataRowLength(header.depth, header.colorType,
                                                     header.width) * header.height),
                        header.depth))
           /\ last'.arg.PLTE =>
                /\ _chunks'.PLTE.present
                /\ _chunks'.PLTE.maxNumberOfColors = computeMaxNumberOfColors(header.depth)
           /\ last'.arg.tRNS =>
                /\ _chunks'.tRNS.present
                /\ _chunks'.tRNS.colorType = header.colorType
                /\ _chunks'.tRNS.maxNumberOfColors = computeMaxNumberOfColors(header.depth)
           /\ last'.arg.bKGD =>
                /\ _chunks'.bKGD.present
                /\ _chunks'.bKGD.colorType = header.colorType]_vars

\* A grayscale buffer with a transparency and a background chunk has been
\* loaded; no document is grayscale before its first load.
C14_Witness ==
  /\ last.op = "from"
  /\ last.err = ""
  /\ ~last.arg.own
  /\ last.arg.tRNS
  /\ last.arg.bKGD
  /\ _depth = 4
  /\ _colorType = GRAYSCALE

OptionalChunks == {"PLTE", "tRNS", "bKGD"}

\* Whether the marker of an optional chunk was in the buffer given to from().
MarkerGiven(arg, chunkHeader) ==
  CASE chunkHeader = "PLTE" -> arg.PLTE
    [] chunkHeader = "tRNS" -> arg.tRNS
    [] chunkHeader = "bKGD" -> arg.bKGD

\* C15: after a from() that returned, the palette, transparency and
\* background chunks the document holds are exactly those whose markers are
\* in the loaded buffer, and a following getBuffer() emits exactly those.
C15_OptionalChunksReplaced ==
  (last.op = "from" /\ last.err = "") =>
    \A chunkHeader \in OptionalChunks :
      /\ _doesContainChunk(Doc, chunkHeader) <=> MarkerGiven(last.arg, chunkHeader)
      /\ Contains(getBuffer(Doc).ret, ChunkHeaderSequences[chunkHeader])
           <=> MarkerGiven(last.arg, chunkHeader)

\* C16: whenever the document holds a background chunk, encoding it with
\* update() and decoding the bytes with load() into a new chunk of the same
\* color type gives back the stored background color, sample by sample, and
\* the encoded payload is 1 byte for an indexed image and 2 bytes per sample
\* otherwise.
C16_BackgroundRoundTrip ==
  (constructed /\ _doesContainChunk(Doc, "bKGD")) =>
    LET chunk == _chunks.bKGD
        encoded == BKGD_update(chunk)
        r == BKGD_load(NewBKGD(chunk.colorType), encoded)
    IN  /\ readUint32At(encoded, 0)
             = (IF isIndexed(chunk.colorType) THEN 1 ELSE 2 * Len(chunk.backgroundColor))
        /\ r.ok
        /\ r.chunk.backgroundColor = chunk.backgroundColor

\* The color-keys of d; none when there is no transparency chunk.
ColorKeys(d) == IF _doesContainChunk(d, "tRNS") THEN d._chunks.tRNS.transparencies ELSE <<>>

IsColorKey(d, color) == \E i \in 1..Len(ColorKeys(d)) : ColorKeys(d)[i] = color

\* The pixel-data chunk has the layout of the document's metadata; a from()
\* that failed after the header was applied leaves it with the old layout.
LayoutApplied(d) ==
  /\ d._chunks.IDAT.width = d._width
  /\ d._chunks.IDAT.height = d._height
  /\ d._chunks.IDAT.depth = d._depth
  /\ d._chunks.IDAT.colorType = d._colorType

====
